---- MODULE Spec2Model ----
(***************************************************************************)
(* sol_notifier.py: one short-lived run of main() per process invocation.  *)
(* The runs share one durable file, state.json.  Decimals are modelled as  *)
(* Python's (sign, coefficient, exponent) triples, strings as sequences of *)
(* one-character strings and the state file as the sequence of JSON tokens *)
(* that json.dump writes and json.load reads.                              *)
(***************************************************************************)
EXTENDS Integers, Sequences, FiniteSets, TLC

\* ---------------------------------------------------------------- bounds
\* number of runs of main() in one behaviour
MaxRuns == 3
\* the round-trip harness draws every 2-decimal price with |cents| <= MaxCents
MaxCents == 130
\* the q2 harness draws every decimal of either sign with a coefficient of at most
\* MaxCoef and at most MaxExp fractional digits
MaxCoef == 150
MaxExp == 4

\* ---------------------------------------------------------------- Decimal
\* decimal.Decimal as a triple: value = (-1)^sign * coef / 10^exp
\* (exp counts fractional digits, i.e. it is minus Python's _exp).
Dec(sign, coef, exp) == [sign |-> sign, coef |-> coef, exp |-> exp]

RECURSIVE Pow10(_)
Pow10(n) == IF n = 0 THEN 1 ELSE 10 * Pow10(n - 1)

\* the signed coefficient of d rescaled to e fractional digits (e >= d.exp)
Scaled(d, e) == (IF d.sign = 1 THEN -1 ELSE 1) * d.coef * Pow10(e - d.exp)

MaxOf(a, b) == IF a >= b THEN a ELSE b

\* Decimal.__ge__ on finite operands: numeric comparison
DecGe(a, b) == Scaled(a, MaxOf(a.exp, b.exp)) >= Scaled(b, MaxOf(a.exp, b.exp))

\* Decimal.__gt__ on finite operands
DecGt(a, b) == Scaled(a, MaxOf(a.exp, b.exp)) > Scaled(b, MaxOf(a.exp, b.exp))

\* Decimal.__eq__ on finite operands: numeric equality (0.00 == -0.00)
DecEq(a, b) == Scaled(a, MaxOf(a.exp, b.exp)) = Scaled(b, MaxOf(a.exp, b.exp))

\* Decimal.__abs__
DecAbs(d) == Dec(0, d.coef, d.exp)

\* Decimal.__sub__: exact at the model's magnitudes (far below prec = 16 digits)
DecSub(a, b) ==
    LET e == MaxOf(a.exp, b.exp)
        v == Scaled(a, e) - Scaled(b, e)
    IN  IF v < 0 THEN Dec(1, -v, e) ELSE Dec(0, v, e)

\* a mutant of q2: ROUND_HALF_EVEN (the decimal context's default rounding)
q2_half_even(d) ==
    IF d.exp <= 2
    THEN Dec(d.sign, d.coef * Pow10(2 - d.exp), 2)
    ELSE LET unit == Pow10(d.exp - 2)
             q    == d.coef \div unit
             r    == d.coef % unit
         IN  Dec(d.sign,
                 IF 2 * r > unit \/ (2 * r = unit /\ q % 2 = 1) THEN q + 1 ELSE q,
                 2)

\* a mutant of q2: the price comes back in cents (d * 100, rounded to a whole number)
q2_cents(d) ==
    IF d.exp <= 2
    THEN Dec(d.sign, d.coef * Pow10(2 - d.exp), 0)
    ELSE LET unit == Pow10(d.exp - 2)
             q    == d.coef \div unit
             r    == d.coef % unit
         IN  Dec(d.sign, IF 2 * r >= unit THEN q + 1 ELSE q, 0)

\* a mutant of q2: the price is kept as fetched, not quantized
q2_identity(d) == d

\* q2: d.quantize(Decimal("0.01"), rounding=ROUND_HALF_UP).  The result always has
\* two fractional digits; a discarded part of half a unit or more rounds the
\* magnitude up (away from zero), the sign is kept (so -0.001 becomes -0.00).
q2(d) ==
    IF d.exp <= 2
    THEN Dec(d.sign, d.coef * Pow10(2 - d.exp), 2)
    ELSE LET unit == Pow10(d.exp - 2)
             q    == d.coef \div unit
             r    == d.coef % unit
         IN  Dec(d.sign, IF 2 * r >= unit THEN q + 1 ELSE q, 2)

\* ---------------------------------------------------------------- strings
DigitChars == <<"0", "1", "2", "3", "4", "5", "6", "7", "8", "9">>

IsDigit(c) == \E i \in 1..10 : DigitChars[i] = c

DigitVal(c) == (CHOOSE i \in 1..10 : DigitChars[i] = c) - 1

\* str(int) of a natural number
RECURSIVE NatStr(_)
NatStr(n) == IF n < 10 THEN <<DigitChars[n + 1]>>
             ELSE NatStr(n \div 10) \o <<DigitChars[(n % 10) + 1]>>

\* int(s) of a sequence of digit characters
RECURSIVE DigitsVal(_)
DigitsVal(s) == IF s = <<>> THEN 0
                ELSE 10 * DigitsVal(SubSeq(s, 1, Len(s) - 1)) + DigitVal(s[Len(s)])

Zeros(n) == [i \in 1..n |-> "0"]

\* a mutant of DecimalStr: the fraction is written as a plain integer, without its
\* leading zeros (100.05 comes out as "100.5") and left out when it is zero
DecimalStr_short(d) ==
    LET ip == NatStr(d.coef \div Pow10(d.exp))
        fr == d.coef % Pow10(d.exp)
    IN  (IF d.sign = 1 THEN <<"-">> ELSE <<>>) \o ip
        \o (IF fr = 0 THEN <<>> ELSE <<".">> \o NatStr(fr))

\* Decimal.__str__ for exponents <= 0 and more than -6 digits left of the point
\* (the only branch a q2 result takes): sign, integer part, ".", all exp
\* fractional digits.
DecimalStr(d) ==
    LET digits     == NatStr(d.coef)
        leftdigits == Len(digits) - d.exp
        intpart    == IF leftdigits > 0 THEN SubSeq(digits, 1, leftdigits) ELSE <<"0">>
        fracpart   == IF leftdigits > 0
                      THEN SubSeq(digits, leftdigits + 1, Len(digits))
                      ELSE Zeros(-leftdigits) \o digits
    IN  (IF d.sign = 1 THEN <<"-">> ELSE <<>>) \o intpart
        \o (IF d.exp > 0 THEN <<".">> \o fracpart ELSE <<>>)

\* the characters of s after an optional leading "-"
Unsigned(s) == IF s # <<>> /\ s[1] = "-" THEN SubSeq(s, 2, Len(s)) ELSE s

Dots(s) == {i \in 1..Len(s) : s[i] = "."}

\* Decimal(str) accepts [-]digits[.digits] with at least one digit (the forms with an
\* exponent, NaN and Infinity are not drawn by the model); anything else raises
\* decimal.InvalidOperation.
IsDecimalStr(s) ==
    LET u == Unsigned(s)
    IN  /\ \A i \in 1..Len(u) : IsDigit(u[i]) \/ u[i] = "."
        /\ Cardinality(Dots(u)) <= 1
        /\ \E i \in 1..Len(u) : IsDigit(u[i])

\* Decimal(str): every digit written is kept, the exponent is the number of digits
\* after the point.
DecimalOf(s) ==
    LET u    == Unsigned(s)
        dot  == IF Dots(u) = {} THEN Len(u) + 1 ELSE CHOOSE i \in Dots(u) : TRUE
        ds   == SubSeq(u, 1, dot - 1) \o SubSeq(u, dot + 1, Len(u))
    IN  Dec(IF s # <<>> /\ s[1] = "-" THEN 1 ELSE 0, DigitsVal(ds), Len(u) - dot + (IF Dots(u) = {} THEN 1 ELSE 0))

\* ---------------------------------------------------------------- JSON
\* A Python value as json.load returns it: a str, an int or None, with its text.
PyStr(chars) == [t |-> "str", v |-> chars]
PyInt(chars) == [t |-> "num", v |-> chars]
None == [t |-> "null", v |-> <<>>]

\* The keys the file can hold, each kept as one symbol.
KeyLastPrice == <<"last_price">>
KeyLastStep == <<"last_step">>

\* One JSON token of the file's text.
Tok(t) == [t |-> t, v |-> <<>>]

\* A dict is the sequence of its items in insertion order.
Item(k, v) == [k |-> k, v |-> v]

RECURSIVE Members(_)
Members(items) ==
    IF items = <<>> THEN <<>>
    ELSE <<PyStr(items[1].k), Tok(":"), items[1].v>>
         \o (IF Len(items) > 1 THEN <<Tok(",")>> \o Members(Tail(items)) ELSE <<>>)

\* json.dump(s, f): the text of a dict, key by key in insertion order
JsonDump(items) == <<Tok("{")>> \o Members(items) \o <<Tok("}")>>

IsValueTok(tok) == tok.t \in {"str", "num", "null"}

\* the text is a JSON object: "{", members "key : value" separated by ",", "}"
IsJsonObject(text) ==
    /\ Len(text) >= 2
    /\ text[1].t = "{"
    /\ text[Len(text)].t = "}"
    /\ LET n == Len(text) - 2
       IN  \/ n = 0
           \/ /\ n % 4 = 3
              /\ \A i \in 0..((n - 3) \div 4) :
                    /\ text[4 * i + 2].t = "str"
                    /\ text[4 * i + 3].t = ":"
                    /\ IsValueTok(text[4 * i + 4])
                    /\ (4 * i + 5 <= n + 1 => text[4 * i + 5].t = ",")

ObjectItems(text) ==
    [i \in 1..((Len(text) - 1) \div 4) |-> Item(text[4 * i - 2].v, text[4 * i])]

\* json.load(f): a dict, a list, or json.JSONDecodeError (ok = FALSE)
JsonLoad(text) ==
    IF IsJsonObject(text) THEN [ok |-> TRUE, kind |-> "dict", items |-> ObjectItems(text)]
    ELSE IF text = <<Tok("["), Tok("]")>> THEN [ok |-> TRUE, kind |-> "list", items |-> <<>>]
    ELSE [ok |-> FALSE, kind |-> "none", items |-> <<>>]

\* dict.get(key): the value stored under key, None when the key is missing
DictGet(items, key) ==
    IF \E i \in 1..Len(items) : items[i].k = key
    THEN items[CHOOSE i \in 1..Len(items) :
                 items[i].k = key /\ \A j \in (i + 1)..Len(items) : items[j].k # key].v
    ELSE None

\* dict[key] = value: replaces in place, or appends a new key
DictSet(items, key, val) ==
    IF \E i \in 1..Len(items) : items[i].k = key
    THEN [i \in 1..Len(items) |-> IF items[i].k = key THEN Item(key, val) ELSE items[i]]
    ELSE Append(items, Item(key, val))

\* ---------------------------------------------------------------- the program
\* The invocations of the program (operating-system processes) that take turns.
Procs == {1, 2}

VARIABLES
    DELTA,        \* module constant DELTA, read from the environment at import
    file,         \* state.json: [exists, text]
    card,         \* sol_card.png: <<>> or <<the price drawn on it>>
    pc,           \* pc[p]: where process p is in main()
    state,        \* main's local  state  (a dict or, for the JSON text [], a list)
    last_str,     \* main's local  last_str
    price,        \* main's local  price
    delta,        \* main's local  delta
    emoji,        \* main's local  emoji
    outcome,      \* how the run ended: "success" (return) or the error that left main()
    quote,        \* history: what get_sol_price() returned in this run
    fileAtStart,  \* history: state.json as the run found it
    raised,       \* history: the calls of this run that raised
    fetches,      \* history: calls of get_sol_price in this run
    rendered,     \* history: completed make_card calls in this run
    sent,         \* history: completed send_photo_to_telegram calls in this run
    sends,        \* history: calls of send_photo_to_telegram in this run
    saves,        \* history: calls of save_state in this run
    notified,     \* history: the prices of the notifications delivered, oldest first
    baseline,     \* history: <<>> or <<the price the last first-run initialization stored>>
    runs,         \* history: runs of main() started so far
    trip,         \* the round trip of one price through state.json (SpecRoundTrip)
    qh,           \* q2 applied to one decimal, and again to its result (SpecQuantize)
    mk            \* one call of make_card, statement by statement (SpecCard, ...)

vars == <<DELTA, file, card, pc, state, last_str, price, delta, emoji, outcome, quote,
          fileAtStart, raised, fetches, rendered, sent, sends, saves, notified, baseline,
          runs, trip, qh, mk>>

locals == <<state, last_str, price, delta, quote, emoji>>
counters == <<fetches, rendered, sent, sends, saves>>

\* the variables of the runs of main(), and those of the function harnesses
program == <<DELTA, file, card, pc, locals, outcome, fileAtStart, raised, counters,
             notified, baseline, runs>>
bench == <<trip, qh, mk>>

NoFile == [exists |-> FALSE, text |-> <<>>]
FileOf(text) == [exists |-> TRUE, text |-> text]

EmptyDict == [ok |-> TRUE, kind |-> "dict", items |-> <<>>]
NoDec == Dec(0, 0, 0)

\* What the DELTA environment variable can hold: "1.00", and the default "0.01".
DeltaEnv == {<<"1", ".", "0", "0">>, <<"0", ".", "0", "1">>}

\* What Decimal(r.json()["solana"]["usd"]) can be: the exact value of the JSON number,
\* 100, 100.5, 101, 101.5, 100.125 and 110.
Quotes == {Dec(0, 100, 0), Dec(0, 1005, 1), Dec(0, 101, 0), Dec(0, 1015, 1),
           Dec(0, 100125, 3), Dec(0, 110, 0)}

\* What state.json can hold when the first run starts: nothing (absent), a baseline a
\* former run stored, an empty object, the bucket mode's record, a last_price that is
\* no decimal, a null last_price, an empty (truncated) text, and a JSON list.
InitFiles ==
    { NoFile,
      FileOf(JsonDump(<<Item(KeyLastPrice, PyStr(<<"1", "0", "0", ".", "0", "0">>))>>)),
      FileOf(JsonDump(<<>>)),
      FileOf(JsonDump(<<Item(KeyLastStep, PyInt(<<"1", "0", "0">>))>>)),
      FileOf(JsonDump(<<Item(KeyLastPrice, PyStr(<<"a", "b", "c">>))>>)),
      FileOf(JsonDump(<<Item(KeyLastPrice, None)>>)),
      FileOf(<<>>),
      FileOf(<<Tok("["), Tok("]")>>) }

\* DELTA set to "0" (every observed price fires), next to "1.00"
DeltaEnvZero == {<<"0">>, <<"1", ".", "0", "0">>}

\* state.json as a former run left it at the baseline 100.00
BaselineFile ==
    FileOf(JsonDump(<<Item(KeyLastPrice, PyStr(<<"1", "0", "0", ".", "0", "0">>))>>))

Fresh(f) == [p \in Procs |-> f]

\* The prices whose round trip is checked: every 2-decimal price of at most MaxCents
\* cents, of either sign, and the quantized quotes.
TripInputs ==
    {Dec(sg, c, 2) : sg \in {0, 1}, c \in 0..MaxCents} \cup {q2(usd) : usd \in Quotes}

NoTrip == [stage |-> "off", P |-> NoDec, text |-> <<>>, ok |-> FALSE, back |-> NoDec,
           delta |-> NoDec]

NoQ == [stage |-> "off", d |-> NoDec, once |-> NoDec, twice |-> NoDec]

\* layout of make_card
W == 1200
H == 628
RADIUS == 48
PADDING == 36
LEFT_X == 120
PRICE_MAX_W == W - LEFT_X - 120

\* the optional files of make_card: each is missing, present and usable ("ok"), or
\* present but not loadable as what it should be ("broken")
AssetStates == {"missing", "ok", "broken"}

Assets == [interBold : AssetStates, interMedium : AssetStates, dejavuBold : AssetStates,
           dejavu : AssetStates, banner : AssetStates]

InterBold == "Inter-Bold.ttf"
InterMedium == "Inter-Medium.ttf"
DejaVuBold == "/usr/share/fonts/truetype/dejavu/DejaVuSans-Bold.ttf"
DejaVu == "/usr/share/fonts/truetype/dejavu/DejaVuSans.ttf"

\* the state of the file behind a font path
AssetAt(assets, path) ==
    IF path = InterBold THEN assets.interBold
    ELSE IF path = InterMedium THEN assets.interMedium
    ELSE IF path = DejaVuBold THEN assets.dejavuBold
    ELSE assets.dejavu

\* os.path.exists(path)
Exists(assets, path) == AssetAt(assets, path) # "missing"

\* ImageFont.truetype(path, size) returns a font; otherwise it raises OSError
Loadable(assets, path) == AssetAt(assets, path) = "ok"

TrueType(path, size) == [kind |-> "ttf", path |-> path, size |-> size]

\* ImageFont.load_default(): the built-in bitmap font
DefaultFont == [kind |-> "default", path |-> "", size |-> 0]

NoFont == [kind |-> "none", path |-> "", size |-> 0]

\* digits in groups of three, as the "," format option writes them
RECURSIVE Grouped(_)
Grouped(digits) ==
    IF Len(digits) <= 3 THEN digits
    ELSE Grouped(SubSeq(digits, 1, Len(digits) - 3)) \o <<",">>
         \o SubSeq(digits, Len(digits) - 2, Len(digits))

\* f"${q2(price):,.2f}"
PriceLabel(d) ==
    LET q     == q2(d)
        cents == NatStr(q.coef % 100)
    IN  <<"$">> \o (IF q.sign = 1 THEN <<"-">> ELSE <<>>) \o Grouped(NatStr(q.coef \div 100))
        \o <<".">> \o (IF Len(cents) = 1 THEN <<"0">> ELSE <<>>) \o cents

\* advance width of a character in thousandths of the font size: DejaVu Sans (Bold)
\* and Inter (Bold) set digits and "$" wide, "," and "." narrow
Advance(path, c) ==
    IF path \in {InterBold, InterMedium}
    THEN (IF c \in {",", "."} THEN 300 ELSE 650)
    ELSE (IF c \in {",", "."} THEN 380 ELSE 696)

RECURSIVE Advances(_, _)
Advances(path, text) ==
    IF text = <<>> THEN 0
    ELSE Advance(path, text[1]) + Advances(path, Tail(text))

\* draw.textbbox((0, 0), text, font=f)[2]: the right edge of the text; the built-in
\* font draws every character 6 pixels wide
TextWidth(f, text) ==
    IF f.kind = "ttf" THEN (Advances(f.path, text) * f.size) \div 1000 ELSE 6 * Len(text)

\* draw.textbbox((0, 0), text, font=f)[3]: the bottom edge of the text
TextHeight(f, text) == IF text = <<>> THEN 0 ELSE IF f.kind = "ttf" THEN f.size ELSE 11

\* md.rounded_rectangle([0, 0, w, h], radius=r, fill=255): whether the mask is set at
\* (mx, my), i.e. the point is in the rectangle and, in a corner square, within r of
\* the corner's centre
RoundedMask(mx, my, w, h, r) ==
    LET cx == IF mx < r THEN r ELSE IF mx > w - r THEN w - r ELSE mx
        cy == IF my < r THEN r ELSE IF my > h - r THEN h - r ELSE my
    IN  /\ mx \in 0..(w - 1)
        /\ my \in 0..(h - 1)
        /\ (mx - cx) * (mx - cx) + (my - cy) * (my - cy) <= r * r

\* alpha of base at (x, y) after base.paste(bg, (PADDING, PADDING), mask): the opaque
\* banner or gradient where the mask is set, the transparent canvas elsewhere
BaseAlpha(x, y) ==
    IF RoundedMask(x - PADDING, y - PADDING, W - 2 * PADDING, H - 2 * PADDING, RADIUS)
    THEN 255 ELSE 0

\* the pixels the two dr.text calls of the price can touch: the text box at (x, y)
\* and the same box shifted by shadow_offset
InPriceText(px, tw, th) ==
    /\ px[1] \in LEFT_X..(LEFT_X + tw + 3)
    /\ px[2] \in ((H - th) \div 2 - 10)..((H - th) \div 2 - 10 + th + 3)

\* Image.alpha_composite(base, overlay): alpha of the result from the alpha of base
\* and of overlay
AlphaComposite(ab, ao) == ao + (ab * (255 - ao)) \div 255

\* a mutant of Shrink: the size goes down by one
Shrink_one(size) == size - 1

\* size -= 2
Shrink(size) == size - 2

\* One call of make_card: its inputs (the files found, the price, and one pixel
\* (x, y) of the canvas whose alpha is followed) and its locals.
NoCard == [stage |-> "off", assets |-> [interBold |-> "ok", interMedium |-> "ok",
                                        dejavuBold |-> "ok", dejavu |-> "ok",
                                        banner |-> "ok"],
           price |-> NoDec, px |-> <<0, 0>>, FONT_BOLD |-> "", FONT_MED |-> "",
           bg |-> "", base |-> 0, price_str |-> <<>>, max_width |-> 0, path |-> "",
           size |-> 0, tried |-> <<>>, font_big |-> NoFont, font_small |-> NoFont,
           overlay |-> 0, png |-> <<>>, error |-> ""]

InitProgram(files, envs) ==
    /\ DELTA \in {DecimalOf(s) : s \in envs}
    /\ file \in files
    /\ card = <<>>
    /\ pc = Fresh("idle")
    /\ state = Fresh(EmptyDict)
    /\ last_str = Fresh(None)
    /\ price = Fresh(NoDec)
    /\ delta = Fresh(NoDec)
    /\ emoji = Fresh("")
    /\ outcome = Fresh("none")
    /\ quote = Fresh(NoDec)
    /\ fileAtStart = Fresh(NoFile)
    /\ raised = Fresh({})
    /\ fetches = Fresh(0)
    /\ rendered = Fresh(0)
    /\ sent = Fresh(0)
    /\ sends = Fresh(0)
    /\ saves = Fresh(0)
    /\ notified = <<>>
    /\ baseline = <<>>
    /\ runs = 0

InitWith(files) == InitProgram(files, DeltaEnv)

Init == InitWith(InitFiles) /\ trip = NoTrip /\ qh = NoQ /\ mk = NoCard

\* a deployment with a baseline, its threshold 0 or 1.00
InitZeroDelta ==
    InitProgram({BaselineFile}, DeltaEnvZero) /\ trip = NoTrip /\ qh = NoQ /\ mk = NoCard

\* the very first run of a deployment: no state.json yet
InitFresh == InitWith({NoFile}) /\ trip = NoTrip /\ qh = NoQ /\ mk = NoCard

\* one 2-decimal price to be written by one run and read back by the next
InitRoundTrip ==
    /\ InitWith({NoFile})
    /\ trip \in {[NoTrip EXCEPT !.stage = "input", !.P = d] : d \in TripInputs}
    /\ qh = NoQ
    /\ mk = NoCard

\* An exception leaves main(): the run is over with a non-success outcome.
Raise(p, step, error) ==
    /\ raised' = [raised EXCEPT ![p] = @ \cup {step}]
    /\ outcome' = [outcome EXCEPT ![p] = error]
    /\ pc' = [pc EXCEPT ![p] = "done"]

\* main() returns normally.
Return(p) ==
    /\ outcome' = [outcome EXCEPT ![p] = "success"]
    /\ pc' = [pc EXCEPT ![p] = "done"]

\* The program is invoked: process p enters main().
Launch(p) ==
    /\ pc[p] = "idle"
    /\ runs < MaxRuns
    /\ runs' = runs + 1
    /\ pc' = [pc EXCEPT ![p] = "load"]
    /\ fileAtStart' = [fileAtStart EXCEPT ![p] = file]
    /\ UNCHANGED <<bench, DELTA, file, card, locals, outcome, raised, counters, notified, baseline>>

\* The scheduler starts the program; runs are serialized (no other run is under way).
Start(p) ==
    /\ \A q \in Procs \ {p} : pc[q] = "idle"
    /\ Launch(p)

\* state = load_state(); last_str = state.get("last_price")
LoadState(p) ==
    /\ pc[p] = "load"
    /\ \E readable \in BOOLEAN :
         IF ~file.exists
         THEN /\ state' = [state EXCEPT ![p] = EmptyDict]
              /\ last_str' = [last_str EXCEPT ![p] = None]
              /\ pc' = [pc EXCEPT ![p] = "fetch"]
              /\ UNCHANGED <<outcome, raised>>
         ELSE IF ~readable \/ ~JsonLoad(file.text).ok
         THEN /\ Raise(p, "load", "StateError")
              /\ UNCHANGED <<state, last_str>>
         ELSE IF JsonLoad(file.text).kind # "dict"
         THEN /\ state' = [state EXCEPT ![p] = JsonLoad(file.text)]
              /\ Raise(p, "load", "StateError")
              /\ UNCHANGED last_str
         ELSE /\ state' = [state EXCEPT ![p] = JsonLoad(file.text)]
              /\ last_str' = [last_str EXCEPT ![p] = DictGet(JsonLoad(file.text).items, KeyLastPrice)]
              /\ pc' = [pc EXCEPT ![p] = "fetch"]
              /\ UNCHANGED <<outcome, raised>>
    /\ UNCHANGED <<bench, DELTA, file, card, price, delta, quote, emoji, fileAtStart,
                   counters, notified, baseline, runs>>

\* Decimal(last_str) succeeds on a decimal string and on an int; otherwise it raises
\* decimal.InvalidOperation or TypeError.
IsDecimalValue(v) ==
    \/ v.t = "str" /\ IsDecimalStr(v.v)
    \/ v.t = "num" /\ v.v # <<>> /\ \A i \in 1..Len(v.v) : IsDigit(v.v[i])

\* a mutant of Fires: the threshold itself does not fire
Fires_strict(d, threshold) == DecGt(DecAbs(d), threshold)

\* abs(delta) >= DELTA
Fires(d, threshold) == DecGe(DecAbs(d), threshold)

\* a mutant of SetLastPrice: the price is written in a shortened form (100.00 as
\* "100"), not with its two decimals
SetLastPrice_float(items, observed) ==
    DictSet(items, KeyLastPrice, PyStr(DecimalStr_short(observed)))

\* state["last_price"] = str(price)
SetLastPrice(items, observed) == DictSet(items, KeyLastPrice, PyStr(DecimalStr(observed)))

\* a mutant of NoAlertPc: the poll below the threshold saves the state it loaded
NoAlertPc_save == "save"

\* the else branch of main() only prints
NoAlertPc == "done"

\* a mutant of FetchFailed: the error is caught and the run goes on with a price of
\* 0.00 and no alert
FetchFailed_zero(p) ==
    /\ raised' = [raised EXCEPT ![p] = @ \cup {"fetch"}]
    /\ price' = [price EXCEPT ![p] = Dec(0, 0, 2)]
    /\ UNCHANGED <<delta, quote>>
    /\ IF last_str[p] = None
       THEN /\ state' = [state EXCEPT ![p].items = SetLastPrice(@, Dec(0, 0, 2))]
            /\ pc' = [pc EXCEPT ![p] = "init_save"]
            /\ UNCHANGED outcome
       ELSE /\ Return(p)
            /\ UNCHANGED state

\* get_sol_price() raises (requests.get, raise_for_status, r.json(), the two
\* subscripts or Decimal(...)): nothing catches it
FetchFailed(p) ==
    /\ Raise(p, "fetch", "FetchError")
    /\ UNCHANGED <<state, price, delta, quote>>

\* price = q2(get_sol_price()), then main() up to its next blocking call:
\* the first-run branch, or last/delta and the threshold test.
GetPrice(p) ==
    /\ pc[p] = "fetch"
    /\ fetches' = [fetches EXCEPT ![p] = @ + 1]
    /\ \E ok \in BOOLEAN, usd \in Quotes :
         IF ~ok
         THEN FetchFailed(p)
         ELSE /\ quote' = [quote EXCEPT ![p] = usd]
              /\ price' = [price EXCEPT ![p] = q2(usd)]
              /\ IF last_str[p] = None
                 THEN /\ state' = [state EXCEPT ![p].items = SetLastPrice(@, q2(usd))]
                      /\ pc' = [pc EXCEPT ![p] = "init_save"]
                      /\ UNCHANGED <<delta, outcome, raised>>
                 ELSE IF ~IsDecimalValue(last_str[p])
                 THEN /\ Raise(p, "decimal", "StateError")
                      /\ UNCHANGED <<state, delta>>
                 ELSE /\ delta' = [delta EXCEPT ![p] = DecSub(q2(usd), q2(DecimalOf(last_str[p].v)))]
                      /\ UNCHANGED state
                      /\ IF Fires(delta'[p], DELTA)
                         THEN /\ pc' = [pc EXCEPT ![p] = "render"]
                              /\ UNCHANGED <<outcome, raised>>
                         ELSE /\ outcome' = [outcome EXCEPT ![p] =
                                               IF NoAlertPc = "done" THEN "success" ELSE @]
                              /\ pc' = [pc EXCEPT ![p] = NoAlertPc]
                              /\ UNCHANGED raised
    /\ UNCHANGED <<bench, DELTA, file, card, last_str, emoji, fileAtStart, rendered, sent,
                   sends, saves, notified, baseline, runs>>

\* a mutant of Emoji: no branch for a delta of zero, which counts as a rise
Emoji_rise(d) == IF DecGe(d, NoDec) THEN "up" ELSE "down"

\* the emoji of the caption: "up" for the chart rising, "down" for the chart falling,
\* "flat" for the wavy dash
Emoji(d) ==
    IF DecGt(d, NoDec) THEN "up"
    ELSE IF DecGt(NoDec, d) THEN "down"
    ELSE "flat"

\* a mutant of MakeCard: a failed rendering is caught and the run goes on to send
\* whatever sol_card.png holds
MakeCard_swallow(p) ==
    /\ pc[p] = "render"
    /\ \E ok \in BOOLEAN :
         /\ card' = IF ok THEN <<price[p]>> ELSE card
         /\ emoji' = [emoji EXCEPT ![p] = Emoji(delta[p])]
         /\ rendered' = [rendered EXCEPT ![p] = IF ok THEN @ + 1 ELSE @]
         /\ raised' = [raised EXCEPT ![p] = IF ok THEN @ ELSE @ \cup {"render"}]
         /\ pc' = [pc EXCEPT ![p] = "send"]
         /\ UNCHANGED outcome
    /\ UNCHANGED <<bench, DELTA, file, state, last_str, price, delta, quote, fileAtStart,
                   fetches, sent, sends, saves, notified, baseline, runs>>

\* make_card(price, delta): writes sol_card.png, or raises before it is written; then
\* main() picks the emoji of the caption
MakeCard(p) ==
    /\ pc[p] = "render"
    /\ \E ok \in BOOLEAN :
         IF ok
         THEN /\ card' = <<price[p]>>
              /\ rendered' = [rendered EXCEPT ![p] = @ + 1]
              /\ emoji' = [emoji EXCEPT ![p] = Emoji(delta[p])]
              /\ pc' = [pc EXCEPT ![p] = "send"]
              /\ UNCHANGED <<outcome, raised>>
         ELSE /\ Raise(p, "render", "RenderError")
              /\ UNCHANGED <<card, rendered, emoji>>
    /\ UNCHANGED <<bench, DELTA, file, state, last_str, price, delta, quote, fileAtStart,
                   fetches, sent, sends, saves, notified, baseline, runs>>

\* a mutant of SendPhoto: a failed send is caught and the run goes on to move the
\* baseline
SendPhoto_swallow(p) ==
    /\ pc[p] = "send"
    /\ sends' = [sends EXCEPT ![p] = @ + 1]
    /\ \E ok \in BOOLEAN :
         /\ sent' = [sent EXCEPT ![p] = IF ok THEN @ + 1 ELSE @]
         /\ notified' = IF ok THEN Append(notified, price[p]) ELSE notified
         /\ raised' = [raised EXCEPT ![p] = IF ok THEN @ ELSE @ \cup {"send"}]
         /\ state' = [state EXCEPT ![p].items = SetLastPrice(@, price[p])]
         /\ pc' = [pc EXCEPT ![p] = "save"]
         /\ UNCHANGED outcome
    /\ UNCHANGED <<bench, DELTA, file, card, last_str, price, delta, quote, emoji,
                   fileAtStart, fetches, rendered, saves, baseline, runs>>

\* a mutant of SendPhoto: a send that failed is tried a second time
SendPhoto_retry(p) ==
    /\ pc[p] = "send"
    /\ sends' = [sends EXCEPT ![p] = @ + 1]
    /\ \E ok \in BOOLEAN :
         IF ok
         THEN /\ sent' = [sent EXCEPT ![p] = @ + 1]
              /\ notified' = Append(notified, price[p])
              /\ state' = [state EXCEPT ![p].items = SetLastPrice(@, price[p])]
              /\ pc' = [pc EXCEPT ![p] = "save"]
              /\ UNCHANGED <<outcome, raised>>
         ELSE IF sends[p] = 0
         THEN UNCHANGED <<sent, notified, state, pc, outcome, raised>>
         ELSE /\ Raise(p, "send", "SendError")
              /\ UNCHANGED <<sent, notified, state>>
    /\ UNCHANGED <<bench, DELTA, file, card, last_str, price, delta, quote, emoji,
                   fileAtStart, fetches, rendered, saves, baseline, runs>>

\* send_photo_to_telegram(caption), then state["last_price"] = str(price)
SendPhoto(p) ==
    /\ pc[p] = "send"
    /\ sends' = [sends EXCEPT ![p] = @ + 1]
    /\ \E ok \in BOOLEAN :
         IF ok
         THEN /\ sent' = [sent EXCEPT ![p] = @ + 1]
              /\ notified' = Append(notified, price[p])
              /\ state' = [state EXCEPT ![p].items = SetLastPrice(@, price[p])]
              /\ pc' = [pc EXCEPT ![p] = "save"]
              /\ UNCHANGED <<outcome, raised>>
         ELSE /\ Raise(p, "send", "SendError")
              /\ UNCHANGED <<sent, notified, state>>
    /\ UNCHANGED <<bench, DELTA, file, card, last_str, price, delta, quote, emoji,
                   fileAtStart, fetches, rendered, saves, baseline, runs>>

\* save_state(state) of the first-run branch (then main returns) and of the alert
\* branch (then main prints and returns).  When it raises, either open(STATE_FILE,
\* "w") raised and the file is as it was, or the file was truncated and only the
\* first n tokens of the text reached it before the write raised.
SaveState(p) ==
    /\ pc[p] \in {"init_save", "save"}
    /\ saves' = [saves EXCEPT ![p] = @ + 1]
    /\ \E ok \in BOOLEAN, opened \in BOOLEAN, n \in 0..(Len(JsonDump(state[p].items)) - 1) :
         IF ok
         THEN /\ file' = FileOf(JsonDump(state[p].items))
              /\ baseline' = IF pc[p] = "init_save" THEN <<price[p]>> ELSE baseline
              /\ Return(p)
              /\ UNCHANGED raised
         ELSE /\ file' = IF opened THEN FileOf(SubSeq(JsonDump(state[p].items), 1, n)) ELSE file
              /\ Raise(p, "save", "SaveError")
              /\ UNCHANGED baseline
    /\ UNCHANGED <<bench, DELTA, card, locals, fileAtStart, fetches, rendered, sent, sends,
                   notified, runs>>

\* The process ends; its memory is gone, state.json and sol_card.png stay.
Exit(p) ==
    /\ pc[p] = "done"
    /\ pc' = [pc EXCEPT ![p] = "idle"]
    /\ state' = [state EXCEPT ![p] = EmptyDict]
    /\ last_str' = [last_str EXCEPT ![p] = None]
    /\ price' = [price EXCEPT ![p] = NoDec]
    /\ delta' = [delta EXCEPT ![p] = NoDec]
    /\ emoji' = [emoji EXCEPT ![p] = ""]
    /\ quote' = [quote EXCEPT ![p] = NoDec]
    /\ outcome' = [outcome EXCEPT ![p] = "none"]
    /\ fileAtStart' = [fileAtStart EXCEPT ![p] = NoFile]
    /\ raised' = [raised EXCEPT ![p] = {}]
    /\ fetches' = [fetches EXCEPT ![p] = 0]
    /\ rendered' = [rendered EXCEPT ![p] = 0]
    /\ sent' = [sent EXCEPT ![p] = 0]
    /\ sends' = [sends EXCEPT ![p] = 0]
    /\ saves' = [saves EXCEPT ![p] = 0]
    /\ UNCHANGED <<bench, DELTA, file, card, notified, baseline, runs>>

Next ==
    \E p \in Procs :
        \/ Start(p)
        \/ LoadState(p)
        \/ GetPrice(p)
        \/ MakeCard(p)
        \/ SendPhoto(p)
        \/ SaveState(p)
        \/ Exit(p)

\* serialized runs over whatever state.json the first run finds
Spec == Init /\ [][Next]_vars

\* serialized runs of a fresh deployment
SpecFresh == InitFresh /\ [][Next]_vars

\* serialized runs from the baseline 100.00 with DELTA = 0 or DELTA = 1.00
SpecZeroDelta == InitZeroDelta /\ [][Next]_vars

\* Invocations that may overlap: a second process is started while the first is
\* still in main().
NextOverlap ==
    \E p \in Procs :
        \/ Launch(p)
        \/ LoadState(p)
        \/ GetPrice(p)
        \/ MakeCard(p)
        \/ SendPhoto(p)
        \/ SaveState(p)
        \/ Exit(p)

\* a deployment at the baseline 100.00 with DELTA = 1.00
InitBaseline ==
    InitProgram({BaselineFile}, {<<"1", ".", "0", "0">>}) /\ trip = NoTrip /\ qh = NoQ
    /\ mk = NoCard

\* unserialized runs from the baseline 100.00 with DELTA = 1.00
SpecOverlap == InitBaseline /\ [][NextOverlap]_vars

\* The scheduler goes on invoking the program for ever: once MaxRuns runs are over,
\* the history kept about them starts again from nothing.
Forget ==
    /\ runs = MaxRuns
    /\ \A p \in Procs : pc[p] = "idle"
    /\ runs' = 0
    /\ notified' = <<>>
    /\ baseline' = <<>>
    /\ UNCHANGED <<bench, DELTA, file, card, pc, locals, outcome, fileAtStart, raised,
                   counters>>

\* state.json is read and the quote fetched without an error of the environment:
\* load_state raises only on a text that is no JSON object, get_sol_price returns
Steady ==
    \A p \in Procs :
        /\ "fetch" \notin raised'[p]
        /\ "load" \in raised'[p] =>
               ~(JsonLoad(file.text).ok /\ JsonLoad(file.text).kind = "dict")

NextLive == (Next /\ Steady) \/ Forget

\* the calls of the alert branch that return instead of raising
RenderOk == \E p \in Procs : MakeCard(p) /\ rendered'[p] = 1
SendOk == \E p \in Procs : SendPhoto(p) /\ sent'[p] = 1
SaveOk == \E p \in Procs : SaveState(p) /\ outcome'[p] = "success"

\* Serialized runs for ever from the baseline 100.00 with DELTA = 1.00: the scheduler
\* keeps starting the program and every started run goes on to its end (weak
\* fairness of the steps); make_card, the send and save_state can raise, but none of
\* them raises every time it is called (strong fairness of each returning).
SpecLive ==
    /\ InitBaseline
    /\ [][NextLive]_vars
    /\ WF_vars(Next) /\ WF_vars(Forget)
    /\ SF_vars(RenderOk) /\ SF_vars(SendOk) /\ SF_vars(SaveOk)

\* The writing run: state["last_price"] = str(P); save_state(state)
TripSave ==
    /\ trip.stage = "input"
    /\ trip' = [trip EXCEPT !.stage = "saved",
                            !.text = JsonDump(SetLastPrice(<<>>, trip.P))]
    /\ UNCHANGED <<program, qh, mk>>

\* The reading run: load_state(), state.get("last_price"), last = q2(Decimal(last_str))
\* and, for an observed price equal to P, delta = price - last
TripLoad ==
    /\ trip.stage = "saved"
    /\ LET loaded == JsonLoad(trip.text)
           got    == DictGet(loaded.items, KeyLastPrice)
           usable == loaded.ok /\ loaded.kind = "dict" /\ IsDecimalValue(got)
           last   == IF usable THEN q2(DecimalOf(got.v)) ELSE NoDec
       IN  trip' = [trip EXCEPT !.stage = "loaded", !.ok = usable, !.back = last,
                                !.delta = DecSub(trip.P, last)]
    /\ UNCHANGED <<program, qh, mk>>

NextRoundTrip == TripSave \/ TripLoad

\* save_state / load_state / q2(Decimal(...)) applied to every price of TripInputs
SpecRoundTrip == InitRoundTrip /\ [][NextRoundTrip]_vars

\* ---------------------------------------------------------------- q2 on its own
\* the decimals q2 is applied to
Q2Inputs == {Dec(sg, c, e) : sg \in {0, 1}, c \in 0..MaxCoef, e \in 0..MaxExp}

\* q2(d)
QuantizeOnce ==
    /\ qh.stage = "input"
    /\ qh' = [qh EXCEPT !.stage = "once", !.once = q2(qh.d)]
    /\ UNCHANGED <<program, trip, mk>>

\* q2(q2(d))
QuantizeTwice ==
    /\ qh.stage = "once"
    /\ qh' = [qh EXCEPT !.stage = "twice", !.twice = q2(qh.once)]
    /\ UNCHANGED <<program, trip, mk>>

NextQuantize == QuantizeOnce \/ QuantizeTwice

InitQuantize ==
    /\ InitProgram({NoFile}, {<<"0", ".", "0", "1">>})
    /\ trip = NoTrip
    /\ mk = NoCard
    /\ qh \in {[NoQ EXCEPT !.stage = "input", !.d = d] : d \in Q2Inputs}

\* q2 and q2 o q2 applied to every decimal of Q2Inputs
SpecQuantize == InitQuantize /\ [][NextQuantize]_vars

\* ---------------------------------------------------------------- make_card, step by step
\* the prices drawn on a card: 0.5, 100, 100.125, 1234.5, 99999.99, 1234567.891 and
\* 21474836.47
CardPrices == {Dec(0, 5, 1), Dec(0, 100, 0), Dec(0, 100125, 3), Dec(0, 12345, 1),
               Dec(0, 9999999, 2), Dec(0, 1234567891, 3), Dec(0, 2147483647, 2)}

\* the pixels followed: the canvas corners, both sides of the padding, the rounded
\* corners of the banner, the price text and the centre
PixelXs == {0, 35, 36, 37, 50, 83, 84, 120, 400, 600, 1115, 1116, 1150, 1163, 1164, 1199}
PixelYs == {0, 35, 36, 37, 50, 83, 84, 250, 314, 543, 544, 580, 591, 592, 627}

\* FONT_BOLD = ..., FONT_MED = ...: the Inter files when they exist, else the DejaVu
\* paths
CardFonts ==
    /\ mk.stage = "fonts"
    /\ mk' = [mk EXCEPT !.stage = "background",
                        !.FONT_BOLD = IF Exists(mk.assets, InterBold) THEN InterBold
                                      ELSE DejaVuBold,
                        !.FONT_MED = IF Exists(mk.assets, InterMedium) THEN InterMedium
                                     ELSE DejaVu]
    /\ UNCHANGED <<program, trip, qh>>

\* base, bg (the banner, or the gradient when Image.open raises), resize, mask, paste
CardBackground ==
    /\ mk.stage = "background"
    /\ mk' = [mk EXCEPT !.stage = "measure",
                        !.bg = IF mk.assets.banner = "ok" THEN "banner" ELSE "gradient",
                        !.base = BaseAlpha(mk.px[1], mk.px[2])]
    /\ UNCHANGED <<program, trip, qh>>

\* overlay, price_str, tmp_font_for_measure (truetype raises when FONT_BOLD exists and
\* does not load), then the call _autosize_font(dr, price_str, PRICE_MAX_W, 160,
\* FONT_BOLD) up to size = start
CardMeasure ==
    /\ mk.stage = "measure"
    /\ IF Exists(mk.assets, mk.FONT_BOLD) /\ ~Loadable(mk.assets, mk.FONT_BOLD)
       THEN mk' = [mk EXCEPT !.stage = "raised", !.error = "OSError",
                             !.price_str = PriceLabel(mk.price)]
       ELSE mk' = [mk EXCEPT !.stage = "autosize",
                             !.price_str = PriceLabel(mk.price),
                             !.max_width = PRICE_MAX_W,
                             !.path = mk.FONT_BOLD,
                             !.size = 160]
    /\ UNCHANGED <<program, trip, qh>>

\* _autosize_font, one evaluation of the loop condition and one iteration of the loop
\* body per step: while size > 10, load the font at size (on any exception return
\* the default font), measure the text, return the font when it fits, else shrink;
\* after the loop return the default font.  make_card goes on with font_big.
Autosize ==
    /\ mk.stage = "autosize"
    /\ IF mk.size > 10
       THEN IF ~Loadable(mk.assets, mk.path)
            THEN mk' = [mk EXCEPT !.stage = "text", !.font_big = DefaultFont]
            ELSE IF TextWidth(TrueType(mk.path, mk.size), mk.price_str) <= mk.max_width
            THEN mk' = [mk EXCEPT !.stage = "text",
                                  !.tried = Append(@, mk.size),
                                  !.font_big = TrueType(mk.path, mk.size)]
            ELSE mk' = [mk EXCEPT !.tried = Append(@, mk.size), !.size = Shrink(@)]
       ELSE mk' = [mk EXCEPT !.stage = "text", !.font_big = DefaultFont]
    /\ UNCHANGED <<program, trip, qh>>

\* tw, th, x, y, the shadow and the price drawn on overlay (a pixel of the text box
\* gets the alpha of nothing, of the shadow or of the text), then font_small (truetype
\* raises when FONT_MED exists and does not load) and the empty handle
CardText ==
    /\ mk.stage = "text"
    /\ \E a \in {0, 120, 255} :
         LET tw == TextWidth(mk.font_big, mk.price_str)
             th == TextHeight(mk.font_big, mk.price_str)
             ao == IF InPriceText(mk.px, tw, th) THEN a ELSE 0
         IN  IF Exists(mk.assets, mk.FONT_MED) /\ ~Loadable(mk.assets, mk.FONT_MED)
             THEN mk' = [mk EXCEPT !.stage = "raised", !.error = "OSError", !.overlay = ao]
             ELSE mk' = [mk EXCEPT !.stage = "composite", !.overlay = ao,
                                   !.font_small = IF Exists(mk.assets, mk.FONT_MED)
                                                  THEN TrueType(mk.FONT_MED, 40)
                                                  ELSE DefaultFont]
    /\ UNCHANGED <<program, trip, qh>>

\* final = Image.alpha_composite(base, overlay); final.save("sol_card.png", "PNG")
CardSave ==
    /\ mk.stage = "composite"
    /\ mk' = [mk EXCEPT !.stage = "saved",
                        !.png = <<[format |-> "PNG", mode |-> "RGBA", size |-> <<W, H>>,
                                   alpha |-> AlphaComposite(mk.base, mk.overlay)]>>]
    /\ UNCHANGED <<program, trip, qh>>

NextCard == CardFonts \/ CardBackground \/ CardMeasure \/ Autosize \/ CardText \/ CardSave

\* no run of main() is started: the functions are called on their own
InitIdle == InitProgram({NoFile}, {<<"0", ".", "0", "1">>}) /\ trip = NoTrip

\* make_card(100.125, ...) over every combination of the optional files
InitCard ==
    /\ InitIdle /\ qh = NoQ
    /\ mk \in {[NoCard EXCEPT !.stage = "fonts", !.assets = a, !.price = Dec(0, 100125, 3),
                              !.px = <<600, 314>>] : a \in Assets}

SpecCard == InitCard /\ [][NextCard]_vars

\* make_card(100, ...) with every optional file present or every one missing, one
\* pixel of the canvas followed
InitPixel ==
    /\ InitIdle /\ qh = NoQ
    /\ mk \in {[NoCard EXCEPT !.stage = "fonts", !.price = Dec(0, 100, 0),
                              !.assets = [f \in DOMAIN NoCard.assets |-> a],
                              !.px = <<x, y>>] :
                   a \in {"ok", "missing"}, x \in PixelXs, y \in PixelYs}

SpecPixel == InitPixel /\ [][NextCard]_vars

\* the widths _autosize_font is given: PRICE_MAX_W, and narrower ones
AutosizeWidths == {PRICE_MAX_W, 300, 40}

\* _autosize_font(dr, text, max_width, 160, path) on its own, after size = start: the
\* label of every price of CardPrices, a bold font file that loads or does not
InitAutosize ==
    /\ InitIdle /\ qh = NoQ
    /\ mk \in {[NoCard EXCEPT !.stage = "autosize", !.assets.interBold = a,
                              !.assets.dejavuBold = b, !.price = d,
                              !.price_str = PriceLabel(d), !.max_width = w,
                              !.path = path, !.size = 160] :
                   a \in {"ok", "broken"}, b \in {"ok", "missing"}, d \in CardPrices,
                   w \in AutosizeWidths, path \in {InterBold, DejaVuBold}}

SpecAutosize == InitAutosize /\ [][Autosize]_vars

\* ---------------------------------------------------------------- properties
\* the value stored under "last_price" in a state file, None when there is none
Persisted(f) ==
    IF f.exists /\ JsonLoad(f.text).ok /\ JsonLoad(f.text).kind = "dict"
    THEN DictGet(JsonLoad(f.text).items, KeyLastPrice)
    ELSE None

\* the run of p found a persisted last_price it can compare against
HadLastPrice(p) == pc[p] # "idle" /\ IsDecimalValue(Persisted(fileAtStart[p]))

\* that last_price, L
LastOf(p) == q2(DecimalOf(Persisted(fileAtStart[p]).v))

\* the run of p has fetched a price, P = price[p]
Observed(p) == fetches[p] = 1 /\ "fetch" \notin raised[p]

AbsInt(n) == IF n < 0 THEN -n ELSE n

\* |P - L| >= DELTA, in integer arithmetic on a common scale
Reached(p) ==
    LET e == MaxOf(2, DELTA.exp)
    IN  AbsInt(Scaled(price[p], e) - Scaled(LastOf(p), e)) >= Scaled(DELTA, e)

\* state.json holds exactly {"last_price": "<d>"} with d written with two decimals
HoldsOnly(f, d) ==
    /\ f.exists
    /\ f.text = <<Tok("{"), PyStr(KeyLastPrice), Tok(":"), PyStr(DecimalStr(d)), Tok("}")>>

\* d is a multiple of 0.01 nearest to the decimal x
NearestCent(d, x) ==
    LET e == MaxOf(2, x.exp)
    IN  d.exp = 2 /\ 2 * AbsInt(Scaled(d, e) - Scaled(x, e)) <= Pow10(e - 2)

\* C1: in a run that starts with a persisted last_price L and observes P, a card is
\* rendered or a notification sent only if |P - L| >= DELTA; a run that returns
\* normally has rendered and sent exactly when |P - L| >= DELTA (the threshold itself
\* fires); and a run that fired and returned leaves last_price = str(P) in state.json.
C1_FiresIffThresholdReached ==
    \A p \in Procs :
        HadLastPrice(p) /\ Observed(p) =>
            /\ (rendered[p] > 0 \/ sent[p] > 0 \/ pc[p] \in {"render", "send", "save"})
                   => Reached(p)
            /\ (pc[p] = "done" /\ outcome[p] = "success") =>
                   /\ (rendered[p] = 1 /\ sent[p] = 1) <=> Reached(p)
                   /\ Reached(p) => Persisted(file) = PyStr(DecimalStr(price[p]))

\* C1 witness: L = 100.00, DELTA = 1.00, P = 101.00 (exactly the threshold away): the
\* run fired, returned and left last_price = "101.00".
C1_Witness ==
    \E p \in Procs :
        /\ pc[p] = "done" /\ outcome[p] = "success"
        /\ HadLastPrice(p) /\ LastOf(p) = Dec(0, 10000, 2)
        /\ DELTA = Dec(0, 100, 2)
        /\ price[p] = Dec(0, 10100, 2)
        /\ sent[p] = 1 /\ rendered[p] = 1
        /\ Persisted(file) = PyStr(<<"1", "0", "1", ".", "0", "0">>)

\* C2: a run that finds no state file never renders and never sends, and when it
\* returns state.json holds exactly {"last_price": str(P)}, P being the fetched price
\* rounded to the nearest cent and written with two decimals.
C2_FirstRunOnlyInitializes ==
    \A p \in Procs :
        pc[p] # "idle" /\ ~fileAtStart[p].exists =>
            /\ rendered[p] = 0
            /\ sent[p] = 0
            /\ pc[p] \notin {"render", "send", "save"}
            /\ (pc[p] = "done" /\ outcome[p] = "success") =>
                   /\ HoldsOnly(file, price[p])
                   /\ NearestCent(price[p], quote[p])
                   /\ saves[p] = 1

\* C2 witness: no state file, the quote 100.125: the run returned without a card or a
\* notification and state.json holds {"last_price": "100.13"}.
C2_Witness ==
    \E p \in Procs :
        /\ pc[p] = "done" /\ outcome[p] = "success"
        /\ ~fileAtStart[p].exists
        /\ quote[p] = Dec(0, 100125, 3)
        /\ rendered[p] = 0 /\ sent[p] = 0
        /\ Persisted(file) = PyStr(<<"1", "0", "0", ".", "1", "3">>)

\* C3: in a run that starts with a persisted last_price L and observes P with
\* |P - L| < DELTA, save_state is never called, state.json stays as the run found it,
\* no card is rendered and no notification is sent.
C3_BelowThresholdTouchesNothing ==
    \A p \in Procs :
        HadLastPrice(p) /\ Observed(p) /\ ~Reached(p) =>
            /\ saves[p] = 0
            /\ file = fileAtStart[p]
            /\ rendered[p] = 0
            /\ sent[p] = 0
            /\ pc[p] = "done"

\* C3 witness: L = 100.00, DELTA = 1.00, P = 100.50: the run is over and state.json is
\* the file it found.
C3_Witness ==
    \E p \in Procs :
        /\ pc[p] = "done" /\ outcome[p] = "success"
        /\ HadLastPrice(p) /\ LastOf(p) = Dec(0, 10000, 2)
        /\ DELTA = Dec(0, 100, 2)
        /\ price[p] = Dec(0, 10050, 2)
        /\ saves[p] = 0 /\ file = fileAtStart[p]

\* no run is under way
Quiet == \A p \in Procs : pc[p] \in {"idle", "done"}

\* the price of the most recently delivered notification, or the first-run baseline
\* when none has been delivered
LastNotified == IF notified # <<>> THEN notified[Len(notified)] ELSE baseline[1]

\* C4 (as claimed): between serialized runs that started from an absent state file,
\* once a baseline was stored or a notification delivered, the persisted last_price
\* is the price of the most recent notification, or the first-run baseline when none
\* was delivered.
C4_BaselineIsLastNotification ==
    (Quiet /\ (notified # <<>> \/ baseline # <<>>)) =>
        Persisted(file) = PyStr(DecimalStr(LastNotified))

\* C5: a run in which make_card or the send raised leaves state.json as it found it and
\* never calls save_state; save_state is called only after the send of this run
\* returned, or in the first-run branch, where nothing is rendered or sent; and
\* state.json differs from the file the run found only after such a save_state call.
C5_NoStateOnErrorPaths ==
    \A p \in Procs :
        pc[p] # "idle" =>
            /\ ("render" \in raised[p] \/ "send" \in raised[p]) =>
                   (file = fileAtStart[p] /\ saves[p] = 0 /\ pc[p] = "done")
            /\ (saves[p] > 0 \/ pc[p] \in {"save", "init_save"}) =>
                   \/ sent[p] = 1 /\ "send" \notin raised[p]
                   \/ last_str[p] = None /\ rendered[p] = 0 /\ sent[p] = 0
            /\ file # fileAtStart[p] => saves[p] > 0

\* C5 witness: a firing run whose send raised: it is over, state.json is the file it
\* found (L = 100.00) and save_state was not called.
C5_Witness ==
    \E p \in Procs :
        /\ pc[p] = "done" /\ outcome[p] = "SendError"
        /\ rendered[p] = 1 /\ sent[p] = 0 /\ saves[p] = 0
        /\ HadLastPrice(p) /\ LastOf(p) = Dec(0, 10000, 2)
        /\ file = fileAtStart[p]

\* C6: when get_sol_price raises, the run is over with a non-success outcome (the error
\* left main()), save_state was not called, state.json is as the run found it, absent
\* or present, and nothing was rendered or sent.
C6_FetchFailureDecidesNothing ==
    \A p \in Procs :
        "fetch" \in raised[p] =>
            /\ pc[p] = "done"
            /\ outcome[p] = "FetchError"
            /\ saves[p] = 0
            /\ file = fileAtStart[p]
            /\ rendered[p] = 0
            /\ sent[p] = 0

\* C6 witness: the fetch failed in a run that found no state file, and there is still
\* none.
C6_Witness ==
    \E p \in Procs :
        /\ "fetch" \in raised[p] /\ pc[p] = "done"
        /\ ~fileAtStart[p].exists /\ ~file.exists

\* C7 (as claimed): a run that finds a state file without a usable last_price (invalid
\* JSON, an empty object, only other keys, a last_price that is no decimal) ends in a
\* failure and leaves the file as it found it.
C7_CorruptStateIsHardFailure ==
    \A p \in Procs :
        (pc[p] = "done" /\ fileAtStart[p].exists /\ ~IsDecimalValue(Persisted(fileAtStart[p]))) =>
            /\ outcome[p] # "success"
            /\ file = fileAtStart[p]

\* the bucket mode's record of a state file: the integer under "last_step", -1 when
\* the file has none
LastStep(f) ==
    IF f.exists /\ JsonLoad(f.text).ok /\ JsonLoad(f.text).kind = "dict"
       /\ DictGet(JsonLoad(f.text).items, KeyLastStep).t = "num"
    THEN DigitsVal(DictGet(JsonLoad(f.text).items, KeyLastStep).v)
    ELSE -1

\* floor(x / step) * step for a non-negative decimal x
Level(x, step) == ((x.coef \div Pow10(x.exp)) \div step) * step

\* C8 (as claimed): with step 10, a run that finds {"last_step": s} and returns has sent
\* a notification exactly when floor(P / 10) * 10 > s, then holds last_step equal to
\* that level, and otherwise leaves state.json as it found it.
C8_BucketCrossing ==
    \A p \in Procs :
        (pc[p] = "done" /\ outcome[p] = "success" /\ LastStep(fileAtStart[p]) >= 0
         /\ Persisted(fileAtStart[p]) = None) =>
            /\ sent[p] = 1 <=> Level(quote[p], 10) > LastStep(fileAtStart[p])
            /\ Level(quote[p], 10) > LastStep(fileAtStart[p]) =>
                   LastStep(file) = Level(quote[p], 10)
            /\ Level(quote[p], 10) <= LastStep(fileAtStart[p]) => file = fileAtStart[p]

\* C9: for every 2-decimal price P, the text save_state writes for last_price = str(P)
\* loads back as a dict whose last_price gives q2(Decimal(last_str)) = P, digit for
\* digit, and a run observing P again computes delta = 0.
C9_LastPriceRoundTrip ==
    trip.stage = "loaded" =>
        /\ trip.ok
        /\ trip.back = trip.P
        /\ trip.delta.coef = 0

\* C9 witness: P = 0.05 (a fraction with a leading zero) came back as 0.05.
C9_Witness ==
    /\ trip.stage = "loaded"
    /\ trip.P = Dec(0, 5, 2)
    /\ trip.text = <<Tok("{"), PyStr(KeyLastPrice), Tok(":"), PyStr(<<"0", ".", "0", "5">>), Tok("}")>>
    /\ trip.back = Dec(0, 5, 2)

\* C10: a finished run succeeded exactly when none of its calls raised, and a
\* successful run is one of three: the first-run initialization (one save, no card, no
\* notification), a poll below the threshold (nothing saved, rendered or sent), or an
\* alert that was rendered, sent and saved.
C10_SuccessCases ==
    \A p \in Procs :
        pc[p] = "done" =>
            /\ outcome[p] = "success" <=> raised[p] = {}
            /\ outcome[p] \in {"success", "FetchError", "StateError", "RenderError",
                               "SendError", "SaveError"}
            /\ outcome[p] = "success" =>
                   \/ /\ last_str[p] = None
                      /\ saves[p] = 1 /\ rendered[p] = 0 /\ sent[p] = 0
                      /\ Persisted(file) = PyStr(DecimalStr(price[p]))
                   \/ /\ HadLastPrice(p) /\ ~Reached(p)
                      /\ saves[p] = 0 /\ rendered[p] = 0 /\ sent[p] = 0
                   \/ /\ HadLastPrice(p) /\ Reached(p)
                      /\ saves[p] = 1 /\ rendered[p] = 1 /\ sent[p] = 1
                      /\ Persisted(file) = PyStr(DecimalStr(price[p]))

\* C10 witness: an alert was rendered and sent, then save_state raised: the run did
\* not succeed.
C10_Witness ==
    \E p \in Procs :
        /\ pc[p] = "done" /\ outcome[p] = "SaveError"
        /\ rendered[p] = 1 /\ sent[p] = 1 /\ saves[p] = 1

\* P - L in cents
Move(p) == Scaled(price[p], 2) - Scaled(LastOf(p), 2)

\* C11: once a run has rendered its card the emoji is chosen, and by the sign of
\* P - L alone: up exactly when P > L, down exactly when P < L, flat exactly when
\* P = L; flat does not occur when DELTA > 0; and with DELTA = 0 a run that observes
\* P = L and whose calls do not raise has sent a flat notification and returned
\* normally.
C11_DirectionFromSign ==
    \A p \in Procs :
        /\ rendered[p] = 1 <=> emoji[p] # ""
        /\ emoji[p] # "" =>
               /\ HadLastPrice(p) /\ Observed(p)
               /\ emoji[p] = "up" <=> Move(p) > 0
               /\ emoji[p] = "down" <=> Move(p) < 0
               /\ emoji[p] = "flat" <=> Move(p) = 0
               /\ DELTA.coef > 0 => emoji[p] # "flat"
        /\ (HadLastPrice(p) /\ Observed(p) /\ pc[p] = "done" /\ raised[p] = {}
             /\ DELTA.coef = 0 /\ Move(p) = 0) =>
               (outcome[p] = "success" /\ sent[p] = 1 /\ emoji[p] = "flat")

\* C11 witness: DELTA = 0, L = 100.00, P = 100.00: the run fired with the flat emoji,
\* sent, saved and returned.
C11_Witness ==
    \E p \in Procs :
        /\ DELTA.coef = 0
        /\ HadLastPrice(p) /\ LastOf(p) = Dec(0, 10000, 2)
        /\ price[p] = Dec(0, 10000, 2)
        /\ pc[p] = "done" /\ outcome[p] = "success"
        /\ emoji[p] = "flat" /\ sent[p] = 1 /\ saves[p] = 1

\* the width the label would have in the face of mk.path at a size
WidthAt(size) == (Advances(mk.path, mk.price_str) * size) \div 1000

\* the sizes measured so far are 160, 158, 156, ...
TriedInSteps == \A i \in 1..Len(mk.tried) : mk.tried[i] = 160 - 2 * (i - 1)

\* the font returned is the largest measured size that fits
LargestFit ==
    /\ mk.tried # <<>>
    /\ mk.font_big.size = mk.tried[Len(mk.tried)]
    /\ WidthAt(mk.font_big.size) <= mk.max_width
    /\ \A i \in 1..(Len(mk.tried) - 1) : WidthAt(mk.tried[i]) > mk.max_width

C13_CardIsOpaque ==
    mk.stage = "saved" =>
        /\ mk.png[1].size = <<1200, 628>>
        /\ mk.png[1].alpha = 255

\* C14 (as claimed): whatever the optional files are (missing, usable or not
\* loadable), make_card does not raise, and the card it has written shows the
\* gradient when the banner is not usable and the price in the default font when the
\* bold font file is not usable, the handle likewise for the medium font file.
C14_AssetsNeverFail ==
    /\ mk.stage # "raised"
    /\ mk.stage = "saved" =>
           /\ mk.png # <<>>
           /\ mk.assets.banner # "ok" => mk.bg = "gradient"
           /\ ~Loadable(mk.assets, mk.FONT_BOLD) => mk.font_big = DefaultFont
           /\ ~Loadable(mk.assets, mk.FONT_MED) => mk.font_small = DefaultFont

\* C15: in every run get_sol_price, send_photo_to_telegram and save_state are each
\* called at most once, and a run in which one of them raised is over with that
\* single call made and nothing called after it.
C15_EachCallAtMostOnce ==
    \A p \in Procs :
        /\ fetches[p] <= 1 /\ sends[p] <= 1 /\ saves[p] <= 1
        /\ raised[p] # {} => pc[p] = "done"
        /\ "fetch" \in raised[p] => (fetches[p] = 1 /\ sends[p] = 0 /\ saves[p] = 0)
        /\ "send" \in raised[p] => (sends[p] = 1 /\ sent[p] = 0 /\ saves[p] = 0)
        /\ "save" \in raised[p] => saves[p] = 1

\* C15 witness: the send of a firing run raised: the run is over after its one fetch
\* and one send, without a second send.
C15_Witness ==
    \E p \in Procs :
        /\ pc[p] = "done" /\ "send" \in raised[p]
        /\ fetches[p] = 1 /\ sends[p] = 1 /\ sent[p] = 0 /\ saves[p] = 0

\* C16: for every decimal d of the harness, q2(q2(d)) is q2(d), digit for digit.
C16_QuantizeIdempotent == qh.stage = "twice" => qh.twice = qh.once

\* C16 witness: 0.095 was rounded to 0.10 (a carry into the first decimal) and q2 of
\* 0.10 is 0.10.
C16_Witness ==
    /\ qh.stage = "twice"
    /\ qh.d = Dec(0, 95, 3)
    /\ qh.once = Dec(0, 10, 2)
    /\ qh.twice = Dec(0, 10, 2)

\* C17: q2(d) has two decimals and the sign of d, is a nearest multiple of 0.01 to d,
\* and when d lies exactly half way between two multiples it is the one farther from
\* zero, whatever the sign and whether or not that one is even; 0.125 gives 0.13,
\* 0.135 gives 0.14 and -0.125 gives -0.13.
C17_RoundsHalfAwayFromZero ==
    qh.stage # "off" /\ qh.stage # "input" =>
        LET e    == MaxOf(2, qh.d.exp)
            unit == Pow10(e - 2)
            x    == qh.d.coef * Pow10(e - qh.d.exp)
            r    == qh.once.coef * unit
        IN  /\ qh.once.exp = 2
            /\ qh.once.sign = qh.d.sign
            /\ 2 * AbsInt(r - x) <= unit
            /\ 2 * (x % unit) = unit => r > x
            /\ qh.d = Dec(0, 125, 3) => qh.once = Dec(0, 13, 2)
            /\ qh.d = Dec(0, 135, 3) => qh.once = Dec(0, 14, 2)
            /\ qh.d = Dec(1, 125, 3) => qh.once = Dec(1, 13, 2)

\* C17 witness: -0.125, a tie whose even neighbour is -0.12, was rounded to -0.13.
C17_Witness ==
    /\ qh.stage = "once"
    /\ qh.d = Dec(1, 125, 3)
    /\ qh.once = Dec(1, 13, 2)

\* C18 (as claimed): a run that found a persisted last_price and is over has delivered
\* its notification exactly when it has changed state.json and left last_price =
\* str(P) in it.
C18_NotifiedIffBaselineMoved ==
    \A p \in Procs :
        (HadLastPrice(p) /\ pc[p] = "done") =>
            (sent[p] = 1 <=>
                (file # fileAtStart[p] /\ Persisted(file) = PyStr(DecimalStr(price[p]))))

\* C20 (as claimed, serialized runs): no notification repeats the price of the
\* notification before it, i.e. one move of the price past the threshold is notified
\* once.
C20_SerializedNoDuplicate ==
    \A i \in 1..(Len(notified) - 1) : notified[i + 1] # notified[i]

\* C20, overlapping runs: two processes have both loaded the baseline 100.00, both
\* observed 101.50, both sent the notification and both saved and returned normally.
C20_OverlapDuplicate ==
    /\ \A p \in Procs :
          /\ pc[p] = "done" /\ outcome[p] = "success"
          /\ fileAtStart[p] = BaselineFile
          /\ price[p] = Dec(0, 10150, 2)
          /\ sent[p] = 1
    /\ notified = <<Dec(0, 10150, 2), Dec(0, 10150, 2)>>

\* some run has observed a price less than DELTA away from the baseline it found
Lapse == \E p \in Procs : HadLastPrice(p) /\ Observed(p) /\ ~Reached(p)

\* a notification has been delivered and state.json holds a last_price other than the
\* baseline 100.00
Delivered ==
    /\ notified # <<>>
    /\ IsDecimalValue(Persisted(file))
    /\ Persisted(file) # PyStr(<<"1", "0", "0", ".", "0", "0">>)

\* C19 (as claimed): in serialized runs from the baseline 100.00 in which every
\* observed price is at least DELTA away from the baseline and the calls eventually
\* succeed, a notification is eventually delivered and the persisted baseline
\* eventually moves.
C19_AlertEventuallyDelivered == <>(Lapse \/ Delivered)

====
